---------------------------- MODULE Spec2Model ----------------------------
(***************************************************************************)
(* pgmspace.h: a host-side stand-in for the AVR <avr/pgmspace.h> header.   *)
(* The header is a list of preprocessor directives and typedefs.  The      *)
(* model has three layers:                                                 *)
(*   - the header itself, one definition per #define / typedef line, with  *)
(*     each replacement list kept as its sequence of preprocessing tokens; *)
(*   - the C preprocessor acting on it (conditional inclusion, #define,    *)
(*     macro invocation with argument substitution and rescanning);        *)
(*   - the C abstract machine evaluating what the expansions turn into     *)
(*     (calls of the wrapped <string.h> functions on a byte memory, casts  *)
(*     and dereferences under a host data model, declarations).            *)
(***************************************************************************)
EXTENDS Integers, Sequences, FiniteSets, TLC

(***************************************************************************)
(* Shapes of the header's lines.                                           *)
(***************************************************************************)
ObjMacro(n, b) == [name |-> n, fnlike |-> FALSE, params |-> <<>>, body |-> b]
FnMacro(n, p, b) == [name |-> n, fnlike |-> TRUE, params |-> p, body |-> b]

Blank == [kind |-> "blank", name |-> "", def |-> <<>>]
Ifndef(n) == [kind |-> "ifndef", name |-> n, def |-> <<>>]
Endif == [kind |-> "endif", name |-> "", def |-> <<>>]
IncludeSys(f) == [kind |-> "include", name |-> f, def |-> <<>>]
Define(m) == [kind |-> "define", name |-> m.name, def |-> m]
Typedef(t) == [kind |-> "typedef", name |-> t.alias, def |-> t]

(***************************************************************************)
(* The header, line by line.                                               *)
(***************************************************************************)

(***************************************************************************)
(* Faulty variants of single header lines.  Each differs from the line of  *)
(* the header by one slip of the kind such a line invites; the properties  *)
(* further down are meant to tell the header from each of them.            *)
(***************************************************************************)
\* line 2 with the guard name misspelt: the #ifndef of line 1 stays true.
GuardMisspelt ==
    ObjMacro("__PGMSPACE_H", <<>>)

\* line 6 carrying the AVR attribute instead of nothing.
ProgmemAttribute ==
    ObjMacro("PROGMEM", <<"__attribute__", "(", "(", "progmem", ")", ")">>)

\* line 7 without the const.
PgmPNotConst ==
    ObjMacro("PGM_P", <<"char", "*">>)

\* line 10 without the parentheses around the parameter.
SfrByteBare ==
    FnMacro("_SFR_BYTE", <<"n">>,
        <<"n">>)

\* line 18 naming the signed type.
ProgUint16Signed ==
    [alias |-> "prog_uint16_t", type |-> <<"int16_t">>]

\* line 25 with the two buffers exchanged.
MemcmpSwapped ==
    FnMacro("memcmp_P", <<"a", "b", "n">>,
        <<"memcmp", "(", "(", "b", ")", ",", "(", "a", ")", ",", "(", "n", ")", ")">>)

\* line 51 forwarding to strtok, dropping the caller's save pointer.
StrtokRStatic ==
    FnMacro("strtok_rP", <<"s", "d", "p">>,
        <<"strtok", "(", "(", "s", ")", ",", "(", "d", ")", ")">>)

\* line 53 reading a plain char.
ReadByteAsChar ==
    FnMacro("pgm_read_byte", <<"addr">>,
        <<"(", "*", "(", "const", "char", "*", ")", "(", "addr", ")", ")">>)

\* line 66 forwarding to the byte accessor.
ReadWordFarAsByte ==
    FnMacro("pgm_read_word_far", <<"addr">>,
        <<"pgm_read_byte", "(", "addr", ")">>)
\* line 2: #define __PGMSPACE_H_
__PGMSPACE_H_ ==
    ObjMacro("__PGMSPACE_H_", <<>>)

\* line 6: #define PROGMEM
PROGMEM ==
    ObjMacro("PROGMEM", <<>>)

\* line 7: #define PGM_P      const char *
PGM_P ==
    ObjMacro("PGM_P", <<"const", "char", "*">>)

\* line 8: #define PSTR(str)  (str)
PSTR ==
    FnMacro("PSTR", <<"str">>,
        <<"(", "str", ")">>)

\* line 10: #define _SFR_BYTE(n) (n)
_SFR_BYTE ==
    FnMacro("_SFR_BYTE", <<"n">>,
        <<"(", "n", ")">>)

\* line 12: typedef void prog_void;
prog_void ==
    [alias |-> "prog_void", type |-> <<"void">>]

\* line 13: typedef char prog_char;
prog_char ==
    [alias |-> "prog_char", type |-> <<"char">>]

\* line 14: typedef unsigned char prog_uchar;
prog_uchar ==
    [alias |-> "prog_uchar", type |-> <<"unsigned", "char">>]

\* line 15: typedef int8_t prog_int8_t;
prog_int8_t ==
    [alias |-> "prog_int8_t", type |-> <<"int8_t">>]

\* line 16: typedef uint8_t prog_uint8_t;
prog_uint8_t ==
    [alias |-> "prog_uint8_t", type |-> <<"uint8_t">>]

\* line 17: typedef int16_t prog_int16_t;
prog_int16_t ==
    [alias |-> "prog_int16_t", type |-> <<"int16_t">>]

\* line 18: typedef uint16_t prog_uint16_t;
prog_uint16_t ==
    [alias |-> "prog_uint16_t", type |-> <<"uint16_t">>]

\* line 19: typedef int32_t prog_int32_t;
prog_int32_t ==
    [alias |-> "prog_int32_t", type |-> <<"int32_t">>]

\* line 20: typedef uint32_t prog_uint32_t;
prog_uint32_t ==
    [alias |-> "prog_uint32_t", type |-> <<"uint32_t">>]

\* line 21: typedef int64_t prog_int64_t;
prog_int64_t ==
    [alias |-> "prog_int64_t", type |-> <<"int64_t">>]

\* line 22: typedef uint64_t prog_uint64_t;
prog_uint64_t ==
    [alias |-> "prog_uint64_t", type |-> <<"uint64_t">>]

\* line 24: #define memchr_P(str, c, len)  memchr((str), (c), (len))
memchr_P ==
    FnMacro("memchr_P", <<"str", "c", "len">>,
        <<"memchr", "(", "(", "str", ")", ",", "(", "c", ")", ",", "(", "len", ")", ")">>)

\* line 25: #define memcmp_P(a, b, n)      memcmp((a), (b), (n))
memcmp_P ==
    FnMacro("memcmp_P", <<"a", "b", "n">>,
        <<"memcmp", "(", "(", "a", ")", ",", "(", "b", ")", ",", "(", "n", ")", ")">>)

\* line 26: #define memcpy_P(dest, src, n) memcpy((dest), (src), (n))
memcpy_P ==
    FnMacro("memcpy_P", <<"dest", "src", "n">>,
        <<"memcpy", "(", "(", "dest", ")", ",", "(", "src", ")", ",", "(", "n", ")", ")">>)

\* line 27: #define memmem_P(a, alen, b, blen) memmem((a), (alen), (b), (blen))
memmem_P ==
    FnMacro("memmem_P", <<"a", "alen", "b", "blen">>,
        <<"memmem", "(", "(", "a", ")", ",", "(", "alen", ")", ",", "(", "b", ")", ",", "(", "blen", ")", ")">>)

\* line 28: #define memrchr_P(str, val, len)   memrchr((str), (val), (len))
memrchr_P ==
    FnMacro("memrchr_P", <<"str", "val", "len">>,
        <<"memrchr", "(", "(", "str", ")", ",", "(", "val", ")", ",", "(", "len", ")", ")">>)

\* line 29: #define strcat_P(dest, src)    strcat((dest), (src))
strcat_P ==
    FnMacro("strcat_P", <<"dest", "src">>,
        <<"strcat", "(", "(", "dest", ")", ",", "(", "src", ")", ")">>)

\* line 30: #define strchr_P(str, c)       strchr((str), (c))
strchr_P ==
    FnMacro("strchr_P", <<"str", "c">>,
        <<"strchr", "(", "(", "str", ")", ",", "(", "c", ")", ")">>)

\* line 31: #define strchrnul_P(str, c)    strchrnul((str), (c))
strchrnul_P ==
    FnMacro("strchrnul_P", <<"str", "c">>,
        <<"strchrnul", "(", "(", "str", ")", ",", "(", "c", ")", ")">>)

\* line 32: #define strcmp_P(a, b)         strcmp((a), (b))
strcmp_P ==
    FnMacro("strcmp_P", <<"a", "b">>,
        <<"strcmp", "(", "(", "a", ")", ",", "(", "b", ")", ")">>)

\* line 33: #define strcpy_P(dest, src)    strcpy((dest), (src))
strcpy_P ==
    FnMacro("strcpy_P", <<"dest", "src">>,
        <<"strcpy", "(", "(", "dest", ")", ",", "(", "src", ")", ")">>)

\* line 34: #define strcasecmp_P(a, b)     strcasecmp((a), (b))
strcasecmp_P ==
    FnMacro("strcasecmp_P", <<"a", "b">>,
        <<"strcasecmp", "(", "(", "a", ")", ",", "(", "b", ")", ")">>)

\* line 35: #define strcasestr_P(a, b)     strcasestr((a), (b))
strcasestr_P ==
    FnMacro("strcasestr_P", <<"a", "b">>,
        <<"strcasestr", "(", "(", "a", ")", ",", "(", "b", ")", ")">>)

\* line 36: #define strcspn_P(a, b)        strcspn((a), (b))
strcspn_P ==
    FnMacro("strcspn_P", <<"a", "b">>,
        <<"strcspn", "(", "(", "a", ")", ",", "(", "b", ")", ")">>)

\* line 37: #define strlcat_P(dest, src, n) strlcat((dest), (src), (n))
strlcat_P ==
    FnMacro("strlcat_P", <<"dest", "src", "n">>,
        <<"strlcat", "(", "(", "dest", ")", ",", "(", "src", ")", ",", "(", "n", ")", ")">>)

\* line 38: #define strlcpy_P(dest, src, n) strlcpy((dest), (src), (n))
strlcpy_P ==
    FnMacro("strlcpy_P", <<"dest", "src", "n">>,
        <<"strlcpy", "(", "(", "dest", ")", ",", "(", "src", ")", ",", "(", "n", ")", ")">>)

\* line 39: #define strlen_P(s)            strlen((s))
strlen_P ==
    FnMacro("strlen_P", <<"s">>,
        <<"strlen", "(", "(", "s", ")", ")">>)

\* line 40: #define strnlen_P(s, n)        strnlen((s), (n))
strnlen_P ==
    FnMacro("strnlen_P", <<"s", "n">>,
        <<"strnlen", "(", "(", "s", ")", ",", "(", "n", ")", ")">>)

\* line 41: #define strncmp_P(a, b, n)     strncmp((a), (b), (n))
strncmp_P ==
    FnMacro("strncmp_P", <<"a", "b", "n">>,
        <<"strncmp", "(", "(", "a", ")", ",", "(", "b", ")", ",", "(", "n", ")", ")">>)

\* line 42: #define strncasecmp_P(a, b, n) strncasecmp((a), (b), (n))
strncasecmp_P ==
    FnMacro("strncasecmp_P", <<"a", "b", "n">>,
        <<"strncasecmp", "(", "(", "a", ")", ",", "(", "b", ")", ",", "(", "n", ")", ")">>)

\* line 43: #define strncat_P(a, b, n)     strncat((a), (b), (n))
strncat_P ==
    FnMacro("strncat_P", <<"a", "b", "n">>,
        <<"strncat", "(", "(", "a", ")", ",", "(", "b", ")", ",", "(", "n", ")", ")">>)

\* line 44: #define strncpy_P(a, b, n)     strncpy((a), (b), (n))
strncpy_P ==
    FnMacro("strncpy_P", <<"a", "b", "n">>,
        <<"strncpy", "(", "(", "a", ")", ",", "(", "b", ")", ",", "(", "n", ")", ")">>)

\* line 45: #define strpbrk_P(a, b)        strpbrk((a), (b))
strpbrk_P ==
    FnMacro("strpbrk_P", <<"a", "b">>,
        <<"strpbrk", "(", "(", "a", ")", ",", "(", "b", ")", ")">>)

\* line 46: #define strrchr_P(str, c)      strrchr((str), (c))
strrchr_P ==
    FnMacro("strrchr_P", <<"str", "c">>,
        <<"strrchr", "(", "(", "str", ")", ",", "(", "c", ")", ")">>)

\* line 47: #define strsep_P(sp, b)        strsep((sp), (b))
strsep_P ==
    FnMacro("strsep_P", <<"sp", "b">>,
        <<"strsep", "(", "(", "sp", ")", ",", "(", "b", ")", ")">>)

\* line 48: #define strspn_P(a, b)         strspn((a), (b))
strspn_P ==
    FnMacro("strspn_P", <<"a", "b">>,
        <<"strspn", "(", "(", "a", ")", ",", "(", "b", ")", ")">>)

\* line 49: #define strstr_P(a, b)         strstr((a), (b))
strstr_P ==
    FnMacro("strstr_P", <<"a", "b">>,
        <<"strstr", "(", "(", "a", ")", ",", "(", "b", ")", ")">>)

\* line 50: #define strtok_P(s, d)         strtok((s), (d))
strtok_P ==
    FnMacro("strtok_P", <<"s", "d">>,
        <<"strtok", "(", "(", "s", ")", ",", "(", "d", ")", ")">>)

\* line 51: #define strtok_rP(s, d, p)     strtok_r((s), (d), (p))
strtok_rP ==
    FnMacro("strtok_rP", <<"s", "d", "p">>,
        <<"strtok_r", "(", "(", "s", ")", ",", "(", "d", ")", ",", "(", "p", ")", ")">>)

\* line 53: #define pgm_read_byte(addr)    (*(const unsigned char *)(addr))
pgm_read_byte ==
    FnMacro("pgm_read_byte", <<"addr">>,
        <<"(", "*", "(", "const", "unsigned", "char", "*", ")", "(", "addr", ")", ")">>)

\* line 54: #define pgm_read_word(addr)    (*(const unsigned short *)(addr))
pgm_read_word ==
    FnMacro("pgm_read_word", <<"addr">>,
        <<"(", "*", "(", "const", "unsigned", "short", "*", ")", "(", "addr", ")", ")">>)

\* line 55: #define pgm_read_dword(addr)   (*(const unsigned long *)(addr))
pgm_read_dword ==
    FnMacro("pgm_read_dword", <<"addr">>,
        <<"(", "*", "(", "const", "unsigned", "long", "*", ")", "(", "addr", ")", ")">>)

\* line 56: #define pgm_read_float(addr)   (*(const float *)(addr))
pgm_read_float ==
    FnMacro("pgm_read_float", <<"addr">>,
        <<"(", "*", "(", "const", "float", "*", ")", "(", "addr", ")", ")">>)

\* line 57: #define pgm_read_ptr(addr)     (*(void * const *)(addr))
pgm_read_ptr ==
    FnMacro("pgm_read_ptr", <<"addr">>,
        <<"(", "*", "(", "void", "*", "const", "*", ")", "(", "addr", ")", ")">>)

\* line 59: #define pgm_read_byte_near(addr)   pgm_read_byte(addr)
pgm_read_byte_near ==
    FnMacro("pgm_read_byte_near", <<"addr">>,
        <<"pgm_read_byte", "(", "addr", ")">>)

\* line 60: #define pgm_read_word_near(addr)   pgm_read_word(addr)
pgm_read_word_near ==
    FnMacro("pgm_read_word_near", <<"addr">>,
        <<"pgm_read_word", "(", "addr", ")">>)

\* line 61: #define pgm_read_dword_near(addr)  pgm_read_dword(addr)
pgm_read_dword_near ==
    FnMacro("pgm_read_dword_near", <<"addr">>,
        <<"pgm_read_dword", "(", "addr", ")">>)

\* line 62: #define pgm_read_float_near(addr)  pgm_read_float(addr)
pgm_read_float_near ==
    FnMacro("pgm_read_float_near", <<"addr">>,
        <<"pgm_read_float", "(", "addr", ")">>)

\* line 63: #define pgm_read_ptr_near(addr)    pgm_read_ptr(addr)
pgm_read_ptr_near ==
    FnMacro("pgm_read_ptr_near", <<"addr">>,
        <<"pgm_read_ptr", "(", "addr", ")">>)

\* line 65: #define pgm_read_byte_far(addr)    pgm_read_byte(addr)
pgm_read_byte_far ==
    FnMacro("pgm_read_byte_far", <<"addr">>,
        <<"pgm_read_byte", "(", "addr", ")">>)

\* line 66: #define pgm_read_word_far(addr)    pgm_read_word(addr)
pgm_read_word_far ==
    FnMacro("pgm_read_word_far", <<"addr">>,
        <<"pgm_read_word", "(", "addr", ")">>)

\* line 67: #define pgm_read_dword_far(addr)   pgm_read_dword(addr)
pgm_read_dword_far ==
    FnMacro("pgm_read_dword_far", <<"addr">>,
        <<"pgm_read_dword", "(", "addr", ")">>)

\* line 68: #define pgm_read_float_far(addr)   pgm_read_float(addr)
pgm_read_float_far ==
    FnMacro("pgm_read_float_far", <<"addr">>,
        <<"pgm_read_float", "(", "addr", ")">>)

\* line 69: #define pgm_read_ptr_far(addr)     pgm_read_ptr(addr)
pgm_read_ptr_far ==
    FnMacro("pgm_read_ptr_far", <<"addr">>,
        <<"pgm_read_ptr", "(", "addr", ")">>)
Header ==
    << (*  1 *) Ifndef("__PGMSPACE_H_"),
       (*  2 *) Define(__PGMSPACE_H_),
       (*  3 *) Blank,
       (*  4 *) IncludeSys("inttypes.h"),
       (*  5 *) Blank,
       (*  6 *) Define(PROGMEM),
       (*  7 *) Define(PGM_P),
       (*  8 *) Define(PSTR),
       (*  9 *) Blank,
       (* 10 *) Define(_SFR_BYTE),
       (* 11 *) Blank,
       (* 12 *) Typedef(prog_void),
       (* 13 *) Typedef(prog_char),
       (* 14 *) Typedef(prog_uchar),
       (* 15 *) Typedef(prog_int8_t),
       (* 16 *) Typedef(prog_uint8_t),
       (* 17 *) Typedef(prog_int16_t),
       (* 18 *) Typedef(prog_uint16_t),
       (* 19 *) Typedef(prog_int32_t),
       (* 20 *) Typedef(prog_uint32_t),
       (* 21 *) Typedef(prog_int64_t),
       (* 22 *) Typedef(prog_uint64_t),
       (* 23 *) Blank,
       (* 24 *) Define(memchr_P),
       (* 25 *) Define(memcmp_P),
       (* 26 *) Define(memcpy_P),
       (* 27 *) Define(memmem_P),
       (* 28 *) Define(memrchr_P),
       (* 29 *) Define(strcat_P),
       (* 30 *) Define(strchr_P),
       (* 31 *) Define(strchrnul_P),
       (* 32 *) Define(strcmp_P),
       (* 33 *) Define(strcpy_P),
       (* 34 *) Define(strcasecmp_P),
       (* 35 *) Define(strcasestr_P),
       (* 36 *) Define(strcspn_P),
       (* 37 *) Define(strlcat_P),
       (* 38 *) Define(strlcpy_P),
       (* 39 *) Define(strlen_P),
       (* 40 *) Define(strnlen_P),
       (* 41 *) Define(strncmp_P),
       (* 42 *) Define(strncasecmp_P),
       (* 43 *) Define(strncat_P),
       (* 44 *) Define(strncpy_P),
       (* 45 *) Define(strpbrk_P),
       (* 46 *) Define(strrchr_P),
       (* 47 *) Define(strsep_P),
       (* 48 *) Define(strspn_P),
       (* 49 *) Define(strstr_P),
       (* 50 *) Define(strtok_P),
       (* 51 *) Define(strtok_rP),
       (* 52 *) Blank,
       (* 53 *) Define(pgm_read_byte),
       (* 54 *) Define(pgm_read_word),
       (* 55 *) Define(pgm_read_dword),
       (* 56 *) Define(pgm_read_float),
       (* 57 *) Define(pgm_read_ptr),
       (* 58 *) Blank,
       (* 59 *) Define(pgm_read_byte_near),
       (* 60 *) Define(pgm_read_word_near),
       (* 61 *) Define(pgm_read_dword_near),
       (* 62 *) Define(pgm_read_float_near),
       (* 63 *) Define(pgm_read_ptr_near),
       (* 64 *) Blank,
       (* 65 *) Define(pgm_read_byte_far),
       (* 66 *) Define(pgm_read_word_far),
       (* 67 *) Define(pgm_read_dword_far),
       (* 68 *) Define(pgm_read_float_far),
       (* 69 *) Define(pgm_read_ptr_far),
       (* 70 *) Blank,
       (* 71 *) Endif >>

(***************************************************************************)
(* The preprocessor's translation-unit state:                              *)
(*   macros   : macro name -> its definition (the macros now defined)      *)
(*   typedefs : typedef name -> the type tokens it names                   *)
(*   diags    : redefinition diagnostics raised so far                     *)
(*   ndef     : #define and typedef lines that took effect so far          *)
(*   skip     : inside a conditional group whose condition was false       *)
(***************************************************************************)
\* k has an entry in f.
Has(f, k) == \E x \in DOMAIN f : x = k

Put(f, k, v) == [x \in DOMAIN f \cup {k} |-> IF x = k THEN v ELSE f[x]]

NoDefs == [x \in {} |-> <<>>]

\* <inttypes.h> (line 4) brings in the exact-width integer typedefs of
\* <stdint.h>; int is 32 bits and long long 64 bits on every host data model
\* considered here.
StdTypedefs ==
    [n \in {"int8_t", "uint8_t", "int16_t", "uint16_t",
            "int32_t", "uint32_t", "int64_t", "uint64_t"} |->
        CASE n = "int8_t"   -> <<"signed", "char">>
          [] n = "uint8_t"  -> <<"unsigned", "char">>
          [] n = "int16_t"  -> <<"short">>
          [] n = "uint16_t" -> <<"unsigned", "short">>
          [] n = "int32_t"  -> <<"int">>
          [] n = "uint32_t" -> <<"unsigned", "int">>
          [] n = "int64_t"  -> <<"long", "long">>
          [] n = "uint64_t" -> <<"unsigned", "long", "long">>]

EmptyPP ==
    [macros |-> NoDefs, typedefs |-> NoDefs, diags |-> 0, ndef |-> 0,
     skip |-> FALSE]

\* #ifndef NAME: the group is skipped when NAME is defined.
DoIfndef(st, name) == [st EXCEPT !.skip = Has(st.macros, name)]

\* #define: takes effect; redefining a macro with a different replacement
\* list or parameter list is a constraint violation (C 6.10.3p2).
DoDefine(st, m) ==
    [st EXCEPT !.macros = Put(st.macros, m.name, m),
               !.ndef = st.ndef + 1,
               !.diags = IF Has(st.macros, m.name) /\ st.macros[m.name] # m
                         THEN st.diags + 1 ELSE st.diags]

\* typedef: takes effect; declaring a typedef name again is a constraint
\* violation in C99 (6.7p3), and in C11 when the type differs.
DoTypedef(st, t, strict) ==
    [st EXCEPT !.typedefs = Put(st.typedefs, t.alias, t.type),
               !.ndef = st.ndef + 1,
               !.diags = IF Has(st.typedefs, t.alias)
                            /\ (strict \/ st.typedefs[t.alias] # t.type)
                         THEN st.diags + 1 ELSE st.diags]

\* #include <inttypes.h>: that header is guarded itself, so only the names
\* not yet declared are added.
DoIncludeSys(st) ==
    [st EXCEPT !.typedefs =
        [n \in DOMAIN st.typedefs \cup DOMAIN StdTypedefs |->
            IF Has(st.typedefs, n) THEN st.typedefs[n] ELSE StdTypedefs[n]]]

DoEndif(st) == [st EXCEPT !.skip = FALSE]

\* One line of the header.
DoLine(st, line, strict) ==
    CASE line.kind = "endif" -> DoEndif(st)
      [] st.skip \/ line.kind = "blank" -> st
      [] line.kind = "ifndef" -> DoIfndef(st, line.name)
      [] line.kind = "define" -> DoDefine(st, line.def)
      [] line.kind = "typedef" -> DoTypedef(st, line.def, strict)
      [] line.kind = "include" -> DoIncludeSys(st)

\* Lines lo..hi of the header, in order (the range is halved to keep the
\* evaluation shallow; the test makes the first half take effect before the
\* second is read).
RECURSIVE IncludeLines(_, _, _, _)
IncludeLines(st, lo, hi, strict) ==
    IF lo > hi THEN st
    ELSE IF lo = hi THEN DoLine(st, Header[lo], strict)
    ELSE LET mid == (lo + hi) \div 2
             first == IncludeLines(st, lo, mid, strict)
         IN IF first.ndef >= 0 THEN IncludeLines(first, mid + 1, hi, strict)
            ELSE first

\* #include "pgmspace.h", whole.
Include(st, strict) == IncludeLines(st, 1, Len(Header), strict)

\* The translation unit after its first #include "pgmspace.h".
Included == Include(EmptyPP, FALSE)

(***************************************************************************)
(* Macro invocation (C 6.10.3): the arguments of a function-like macro are *)
(* collected up to the matching parenthesis, split at the commas outside   *)
(* nested parentheses, macro-expanded, substituted for the parameters in   *)
(* the replacement list, and the result is scanned again with the macro's  *)
(* own name no longer replaceable.                                         *)
(***************************************************************************)
\* Position of the ")" that closes the "(" open before position i
\* (0: there is none).
RECURSIVE CloseIdx(_, _, _)
CloseIdx(toks, i, depth) ==
    IF i > Len(toks) THEN 0
    ELSE IF toks[i] = "(" THEN CloseIdx(toks, i + 1, depth + 1)
    ELSE IF toks[i] = ")"
         THEN IF depth = 1 THEN i ELSE CloseIdx(toks, i + 1, depth - 1)
    ELSE CloseIdx(toks, i + 1, depth)

\* The arguments in toks (the tokens between the parentheses), split at the
\* top-level commas.
RECURSIVE SplitFrom(_, _, _, _, _)
SplitFrom(toks, i, depth, cur, acc) ==
    IF i > Len(toks) THEN Append(acc, cur)
    ELSE LET t == toks[i] IN
         IF t = "," /\ depth = 0
         THEN SplitFrom(toks, i + 1, depth, <<>>, Append(acc, cur))
         ELSE SplitFrom(toks, i + 1,
                        IF t = "(" THEN depth + 1
                        ELSE IF t = ")" THEN depth - 1 ELSE depth,
                        Append(cur, t), acc)

SplitArgs(toks) == IF toks = <<>> THEN <<>> ELSE SplitFrom(toks, 1, 0, <<>>, <<>>)

\* Index of token t in the parameter list (0: not a parameter).
ParamIdx(params, t) ==
    IF \E k \in 1..Len(params) : params[k] = t
    THEN CHOOSE k \in 1..Len(params) : params[k] = t
    ELSE 0

\* The replacement list with each parameter replaced by its argument.
RECURSIVE Subst(_, _, _)
Subst(body, params, args) ==
    IF body = <<>> THEN <<>>
    ELSE LET k == ParamIdx(params, Head(body)) IN
         (IF k = 0 THEN <<Head(body)>> ELSE args[k])
             \o Subst(Tail(body), params, args)

RECURSIVE Expand(_, _, _)
Expand(toks, macros, hide) ==
    IF toks = <<>> THEN <<>>
    ELSE LET t == Head(toks)
             rest == Tail(toks)
         IN
         IF ~Has(macros, t) \/ t \in hide
         THEN <<t>> \o Expand(rest, macros, hide)
         ELSE LET m == macros[t] IN
              IF ~m.fnlike
              THEN Expand(m.body, macros, hide \cup {t})
                       \o Expand(rest, macros, hide)
              ELSE LET close == IF rest # <<>> /\ Head(rest) = "("
                                THEN CloseIdx(rest, 2, 1) ELSE 0
                       args == SplitArgs(SubSeq(rest, 2, close - 1))
                   IN
                   IF close = 0 \/ Len(args) # Len(m.params)
                   THEN <<t>> \o Expand(rest, macros, hide)
                   ELSE Expand(Subst(m.body, m.params,
                                     [k \in 1..Len(args) |->
                                         Expand(args[k], macros, hide)]),
                               macros, hide \cup {t})
                            \o Expand(SubSeq(rest, close + 1, Len(rest)),
                                      macros, hide)

\* What the compiler proper sees for the tokens toks written after the
\* #include.
Preprocessed(toks) == Expand(toks, Included.macros, {})

(***************************************************************************)
(* The machine the expansions run on.  Memory is an array of bytes at      *)
(* addresses 1..MemSize; 0 is the null pointer.  Objects of pointer type   *)
(* that a call reaches through a char ** argument live in the cells pv.    *)
(* olds is the position strtok keeps between calls (its static pointer).   *)
(*                                                                         *)
(* The wrapped functions are those of <string.h>; each is given here by    *)
(* its effect on [mem, pv, olds] and its return value, for calls whose     *)
(* behaviour the C library defines (LibDefined).                           *)
(***************************************************************************)
\* Bytes of memory.
MemSize == 14

NULL == 0

Addr == 1..MemSize

Min(S) == CHOOSE x \in S : \A y \in S : x <= y
Max(S) == CHOOSE x \in S : \A y \in S : x >= y
Least(a, b) == IF a <= b THEN a ELSE b
Sign(d) == IF d < 0 THEN -1 ELSE IF d > 0 THEN 1 ELSE 0

\* p points at a NUL-terminated string inside memory.
IsStr(mem, p) == p \in Addr /\ \E q \in p..MemSize : mem[q] = 0

StrLen(mem, p) == Min({q \in p..MemSize : mem[q] = 0}) - p

\* The first n bytes at p, as a sequence.
Bytes(mem, p, n) == [i \in 1..n |-> mem[p + i - 1]]

StrSeq(mem, p) == Bytes(mem, p, StrLen(mem, p))

\* The characters of the string at p.
CharsOf(mem, p) == {mem[q] : q \in p..(p + StrLen(mem, p) - 1)}

\* n bytes at p lie inside memory.
InMem(p, n) == p \in Addr /\ p + n - 1 <= MemSize

Disjoint(p, n, q, m) == p + n <= q \/ q + m <= p

Write(mem, d, bytes) ==
    [a \in Addr |-> IF a >= d /\ a < d + Len(bytes)
                    THEN bytes[a - d + 1] ELSE mem[a]]

\* tolower in the "C" locale.
Lower(c) == IF c >= 65 /\ c <= 90 THEN c + 32 ELSE c

Fold(c, fold) == IF fold THEN Lower(c) ELSE c

\* Comparison of the n bytes at a and b.
MemCmp(mem, a, b, n, fold) ==
    LET D == {i \in 0..(n - 1) : Fold(mem[a + i], fold) # Fold(mem[b + i], fold)}
    IN IF D = {} THEN 0
       ELSE Sign(Fold(mem[a + Min(D)], fold) - Fold(mem[b + Min(D)], fold))

\* Comparison of the strings at a and b, at most n characters.
StrCmp(mem, a, b, n, fold) ==
    MemCmp(mem, a, b,
           Least(n, Least(StrLen(mem, a), StrLen(mem, b)) + 1), fold)

\* First place in the alen bytes at a where the blen bytes at b occur.
Find(mem, a, alen, b, blen, fold) ==
    LET I == {i \in 0..(alen - blen) : MemCmp(mem, a + i, b, blen, fold) = 0}
    IN IF I = {} THEN NULL ELSE a + Min(I)

\* Length of the initial part of the string at s made of characters that
\* are (member) or are not (~member) among those of the string at set.
Span(mem, s, set, member) ==
    LET stop == {i \in 0..StrLen(mem, s) :
                    i = StrLen(mem, s)
                    \/ ((mem[s + i] \in CharsOf(mem, set)) # member)}
    IN Min(stop)

R(ret, mem, pv, olds) == [ret |-> ret, mem |-> mem, pv |-> pv, olds |-> olds]

\* The common part of strtok and strtok_r: s is the string to scan, or NULL
\* to go on from the saved position.  Gives the token and the new saved
\* position, and ends the token in memory.
Tok(mem, s, d, save) ==
    LET from == IF s = NULL THEN save ELSE s
        start == from + Span(mem, from, d, TRUE)
        end == start + Span(mem, start, d, FALSE)
    IN IF mem[start] = 0 THEN [ret |-> NULL, mem |-> mem, save |-> start]
       ELSE IF mem[end] = 0 THEN [ret |-> start, mem |-> mem, save |-> end]
       ELSE [ret |-> start, mem |-> Write(mem, end, <<0>>), save |-> end + 1]

\* strsep(sp, d): cuts the string *sp at its first delimiter.
Sep(mem, s, d) ==
    LET end == s + Span(mem, s, d, FALSE)
    IN IF s = NULL THEN [ret |-> NULL, mem |-> mem, save |-> NULL]
       ELSE IF mem[end] = 0 THEN [ret |-> s, mem |-> mem, save |-> NULL]
       ELSE [ret |-> s, mem |-> Write(mem, end, <<0>>), save |-> end + 1]

\* Parameter kinds of the wrapped functions: "d" pointer to the bytes
\* written, "p" pointer to bytes read, "s" pointer to a string read, "n"
\* size, "c" character, "pp" pointer to a pointer.
Signature(fn) ==
    CASE fn \in {"memchr", "memrchr"} -> <<"p", "c", "n">>
      [] fn = "memcmp" -> <<"p", "p", "n">>
      [] fn = "memcpy" -> <<"d", "p", "n">>
      [] fn = "memmem" -> <<"p", "n", "p", "n">>
      [] fn \in {"strchr", "strchrnul", "strrchr"} -> <<"s", "c">>
      [] fn \in {"strcat", "strcpy"} -> <<"d", "s">>
      [] fn \in {"strcmp", "strcasecmp", "strcasestr", "strcspn", "strpbrk",
                 "strspn", "strstr"} -> <<"s", "s">>
      [] fn \in {"strlcat", "strlcpy", "strncat", "strncpy"} -> <<"d", "s", "n">>
      [] fn \in {"strncmp", "strncasecmp"} -> <<"s", "s", "n">>
      [] fn = "strlen" -> <<"s">>
      [] fn = "strnlen" -> <<"s", "n">>
      [] fn = "strsep" -> <<"pp", "s">>
      [] fn = "strtok" -> <<"s", "s">>
      [] fn = "strtok_r" -> <<"s", "s", "pp">>

\* The call fn(a[1], ..., a[n]) has defined behaviour in this machine state.
LibDefined(fn, a, mem, pv, olds) ==
    CASE fn \in {"memchr", "memrchr"} -> InMem(a[1], a[3])
      [] fn = "memcmp" -> InMem(a[1], a[3]) /\ InMem(a[2], a[3])
      [] fn = "memcpy" ->
            /\ InMem(a[1], a[3]) /\ InMem(a[2], a[3])
            /\ Disjoint(a[1], a[3], a[2], a[3])
      [] fn = "memmem" -> InMem(a[1], a[2]) /\ InMem(a[3], a[4])
      [] fn \in {"strchr", "strchrnul", "strrchr", "strlen"} -> IsStr(mem, a[1])
      [] fn = "strnlen" ->
            IsStr(mem, a[1]) \/ InMem(a[1], a[2])
      [] fn \in {"strcmp", "strcasecmp", "strcasestr", "strcspn", "strpbrk",
                 "strspn", "strstr", "strncmp", "strncasecmp"} ->
            IsStr(mem, a[1]) /\ IsStr(mem, a[2])
      [] fn = "strcpy" ->
            /\ a[1] \in Addr /\ IsStr(mem, a[2])
            /\ InMem(a[1], StrLen(mem, a[2]) + 1)
            /\ Disjoint(a[1], StrLen(mem, a[2]) + 1,
                        a[2], StrLen(mem, a[2]) + 1)
      [] fn = "strncpy" ->
            /\ IsStr(mem, a[2]) /\ InMem(a[1], a[3])
            /\ Disjoint(a[1], a[3], a[2], Least(a[3], StrLen(mem, a[2]) + 1))
      [] fn = "strlcpy" ->
            /\ IsStr(mem, a[2]) /\ InMem(a[1], a[3])
            /\ Disjoint(a[1], a[3], a[2], StrLen(mem, a[2]) + 1)
      [] fn = "strcat" ->
            /\ IsStr(mem, a[1]) /\ IsStr(mem, a[2])
            /\ InMem(a[1], StrLen(mem, a[1]) + StrLen(mem, a[2]) + 1)
            /\ Disjoint(a[1], StrLen(mem, a[1]) + StrLen(mem, a[2]) + 1,
                        a[2], StrLen(mem, a[2]) + 1)
      [] fn = "strncat" ->
            /\ IsStr(mem, a[1]) /\ IsStr(mem, a[2])
            /\ InMem(a[1], StrLen(mem, a[1])
                              + Least(a[3], StrLen(mem, a[2])) + 1)
            /\ Disjoint(a[1], StrLen(mem, a[1])
                                 + Least(a[3], StrLen(mem, a[2])) + 1,
                        a[2], StrLen(mem, a[2]) + 1)
      [] fn = "strlcat" ->
            /\ IsStr(mem, a[1]) /\ IsStr(mem, a[2]) /\ InMem(a[1], a[3])
            /\ Disjoint(a[1], Max({a[3], StrLen(mem, a[1]) + 1}),
                        a[2], StrLen(mem, a[2]) + 1)
      [] fn = "strsep" ->
            IsStr(mem, a[2]) /\ (pv[a[1]] = NULL \/ IsStr(mem, pv[a[1]]))
      [] fn = "strtok" ->
            /\ IsStr(mem, a[2])
            /\ IF a[1] = NULL THEN IsStr(mem, olds) ELSE IsStr(mem, a[1])
      [] fn = "strtok_r" ->
            /\ IsStr(mem, a[2])
            /\ IF a[1] = NULL THEN IsStr(mem, pv[a[3]]) ELSE IsStr(mem, a[1])

\* The call fn(a[1], ..., a[n]): its return value and the machine state it
\* leaves.
LibCall(fn, a, mem, pv, olds) ==
    CASE fn = "memchr" ->
            LET H == {i \in 0..(a[3] - 1) : mem[a[1] + i] = a[2]}
            IN R(IF H = {} THEN NULL ELSE a[1] + Min(H), mem, pv, olds)
      [] fn = "memrchr" ->
            LET H == {i \in 0..(a[3] - 1) : mem[a[1] + i] = a[2]}
            IN R(IF H = {} THEN NULL ELSE a[1] + Max(H), mem, pv, olds)
      [] fn = "memcmp" -> R(MemCmp(mem, a[1], a[2], a[3], FALSE), mem, pv, olds)
      [] fn = "memcpy" ->
            R(a[1], Write(mem, a[1], Bytes(mem, a[2], a[3])), pv, olds)
      [] fn = "memmem" ->
            R(Find(mem, a[1], a[2], a[3], a[4], FALSE), mem, pv, olds)
      [] fn = "strcat" ->
            R(a[1], Write(mem, a[1] + StrLen(mem, a[1]),
                          Append(StrSeq(mem, a[2]), 0)), pv, olds)
      [] fn = "strchr" ->
            LET H == {i \in 0..StrLen(mem, a[1]) : mem[a[1] + i] = a[2]}
            IN R(IF H = {} THEN NULL ELSE a[1] + Min(H), mem, pv, olds)
      [] fn = "strchrnul" ->
            LET H == {i \in 0..StrLen(mem, a[1]) : mem[a[1] + i] = a[2]}
            IN R(IF H = {} THEN a[1] + StrLen(mem, a[1]) ELSE a[1] + Min(H),
                 mem, pv, olds)
      [] fn = "strrchr" ->
            LET H == {i \in 0..StrLen(mem, a[1]) : mem[a[1] + i] = a[2]}
            IN R(IF H = {} THEN NULL ELSE a[1] + Max(H), mem, pv, olds)
      [] fn = "strcmp" ->
            R(StrCmp(mem, a[1], a[2], MemSize, FALSE), mem, pv, olds)
      [] fn = "strcasecmp" ->
            R(StrCmp(mem, a[1], a[2], MemSize, TRUE), mem, pv, olds)
      [] fn = "strncmp" ->
            R(StrCmp(mem, a[1], a[2], a[3], FALSE), mem, pv, olds)
      [] fn = "strncasecmp" ->
            R(StrCmp(mem, a[1], a[2], a[3], TRUE), mem, pv, olds)
      [] fn = "strcpy" ->
            R(a[1], Write(mem, a[1], Append(StrSeq(mem, a[2]), 0)), pv, olds)
      [] fn = "strstr" ->
            R(Find(mem, a[1], StrLen(mem, a[1]), a[2], StrLen(mem, a[2]),
                   FALSE), mem, pv, olds)
      [] fn = "strcasestr" ->
            R(Find(mem, a[1], StrLen(mem, a[1]), a[2], StrLen(mem, a[2]),
                   TRUE), mem, pv, olds)
      [] fn = "strcspn" -> R(Span(mem, a[1], a[2], FALSE), mem, pv, olds)
      [] fn = "strspn" -> R(Span(mem, a[1], a[2], TRUE), mem, pv, olds)
      [] fn = "strpbrk" ->
            LET k == Span(mem, a[1], a[2], FALSE)
            IN R(IF mem[a[1] + k] = 0 THEN NULL ELSE a[1] + k, mem, pv, olds)
      [] fn = "strlen" -> R(StrLen(mem, a[1]), mem, pv, olds)
      [] fn = "strnlen" ->
            R(IF IsStr(mem, a[1]) THEN Least(a[2], StrLen(mem, a[1])) ELSE a[2],
              mem, pv, olds)
      [] fn = "strlcpy" ->
            LET sl == StrLen(mem, a[2])
            IN R(sl,
                 IF a[3] = 0 THEN mem
                 ELSE Write(mem, a[1],
                            Append(Bytes(mem, a[2], Least(sl, a[3] - 1)), 0)),
                 pv, olds)
      [] fn = "strlcat" ->
            LET sl == StrLen(mem, a[2])
                dl == Least(a[3], StrLen(mem, a[1]))
            IN R(dl + sl,
                 IF dl = a[3] THEN mem
                 ELSE Write(mem, a[1] + dl,
                            Append(Bytes(mem, a[2], Least(sl, a[3] - dl - 1)), 0)),
                 pv, olds)
      [] fn = "strncat" ->
            R(a[1], Write(mem, a[1] + StrLen(mem, a[1]),
                          Append(Bytes(mem, a[2],
                                       Least(a[3], StrLen(mem, a[2]))), 0)),
              pv, olds)
      [] fn = "strncpy" ->
            R(a[1], Write(mem, a[1],
                          [i \in 1..a[3] |->
                              IF i <= StrLen(mem, a[2])
                              THEN mem[a[2] + i - 1] ELSE 0]),
              pv, olds)
      [] fn = "strsep" ->
            LET t == Sep(mem, pv[a[1]], a[2])
            IN R(t.ret, t.mem, [pv EXCEPT ![a[1]] = t.save], olds)
      [] fn = "strtok" ->
            LET t == Tok(mem, a[1], a[2], olds)
            IN R(t.ret, t.mem, pv, t.save)
      [] fn = "strtok_r" ->
            LET t == Tok(mem, a[1], a[2], pv[a[3]])
            IN R(t.ret, t.mem, [pv EXCEPT ![a[3]] = t.save], olds)

(***************************************************************************)
(* Use of the string macros.  A use NAME_P(x1, ..., xn) is written after   *)
(* the #include, preprocessed, and what comes out is read as a call        *)
(* expression: the function called and, per position, the parameter of the *)
(* macro that position receives.                                           *)
(***************************************************************************)
StringMacros ==
    {"memchr_P", "memcmp_P", "memcpy_P", "memmem_P",
     "memrchr_P", "strcat_P", "strchr_P", "strchrnul_P",
     "strcmp_P", "strcpy_P", "strcasecmp_P", "strcasestr_P",
     "strcspn_P", "strlcat_P", "strlcpy_P", "strlen_P",
     "strnlen_P", "strncmp_P", "strncasecmp_P", "strncat_P",
     "strncpy_P", "strpbrk_P", "strrchr_P", "strsep_P",
     "strspn_P", "strstr_P", "strtok_P", "strtok_rP"}

\* The ordinary function each _P name stands for.
Ordinary(n) ==
    CASE n = "memchr_P" -> "memchr"
      [] n = "memcmp_P" -> "memcmp"
      [] n = "memcpy_P" -> "memcpy"
      [] n = "memmem_P" -> "memmem"
      [] n = "memrchr_P" -> "memrchr"
      [] n = "strcat_P" -> "strcat"
      [] n = "strchr_P" -> "strchr"
      [] n = "strchrnul_P" -> "strchrnul"
      [] n = "strcmp_P" -> "strcmp"
      [] n = "strcpy_P" -> "strcpy"
      [] n = "strcasecmp_P" -> "strcasecmp"
      [] n = "strcasestr_P" -> "strcasestr"
      [] n = "strcspn_P" -> "strcspn"
      [] n = "strlcat_P" -> "strlcat"
      [] n = "strlcpy_P" -> "strlcpy"
      [] n = "strlen_P" -> "strlen"
      [] n = "strnlen_P" -> "strnlen"
      [] n = "strncmp_P" -> "strncmp"
      [] n = "strncasecmp_P" -> "strncasecmp"
      [] n = "strncat_P" -> "strncat"
      [] n = "strncpy_P" -> "strncpy"
      [] n = "strpbrk_P" -> "strpbrk"
      [] n = "strrchr_P" -> "strrchr"
      [] n = "strsep_P" -> "strsep"
      [] n = "strspn_P" -> "strspn"
      [] n = "strstr_P" -> "strstr"
      [] n = "strtok_P" -> "strtok"
      [] n = "strtok_rP" -> "strtok_r"

ArgNames == <<"x1", "x2", "x3", "x4">>

\* a, b, c as the token list a , b , c
RECURSIVE CommaList(_)
CommaList(args) ==
    IF Len(args) = 0 THEN <<>>
    ELSE IF Len(args) = 1 THEN args[1]
    ELSE args[1] \o <<",">> \o CommaList(Tail(args))

\* The tokens of the use name(args[1], ..., args[n]).
Invocation(name, args) == <<name, "(">> \o CommaList(args) \o <<")">>

\* An expression without the parentheses around the whole of it.
RECURSIVE StripParens(_)
StripParens(toks) ==
    IF Len(toks) >= 2 /\ toks[1] = "(" /\ CloseIdx(toks, 2, 1) = Len(toks)
    THEN StripParens(SubSeq(toks, 2, Len(toks) - 1))
    ELSE toks

\* A call expression f(e1, ..., en): f and the expressions e1..en.
IsCall(toks) ==
    Len(toks) >= 3 /\ toks[2] = "(" /\ CloseIdx(toks, 3, 1) = Len(toks)

CallOf(toks) ==
    [fn |-> toks[1],
     args |-> LET as == SplitArgs(SubSeq(toks, 3, Len(toks) - 1))
              IN [k \in 1..Len(as) |-> StripParens(as[k])]]

\* Index of the argument named by token t.
ArgIdx(t) == CHOOSE k \in 1..Len(ArgNames) : ArgNames[k] = t

\* What NAME(x1, ..., xn) calls: the function, and for each position of the
\* call the index of the macro argument passed there.
Forwarding(name) ==
    LET m == Included.macros[name]
        c == CallOf(Preprocessed(
                 Invocation(name, [k \in 1..Len(m.params) |-> <<ArgNames[k]>>])))
    IN [fn |-> c.fn, pos |-> [k \in 1..Len(c.args) |-> ArgIdx(c.args[k][1])]]

ForwardingTable == [n \in StringMacros |-> Forwarding(n)]

\* The use NAME(v[1], ..., v[n]) on the machine state.
ShimCall(name, v, mem, pv, olds) ==
    LET f == ForwardingTable[name]
    IN LibCall(f.fn, [k \in 1..Len(f.pos) |-> v[f.pos[k]]], mem, pv, olds)

(***************************************************************************)
(* Types and objects.  A host data model fixes the sizes the C             *)
(* standard leaves open: long and pointers (4 or 8 bytes), whether         *)
(* plain char is signed, and the byte order.  short is 2 bytes, int        *)
(* and float 4 and long long 8 on each of them.                            *)
(***************************************************************************)
Hosts ==
    { [name |-> "ILP32", long |-> 4, ptr |-> 4, schar |-> TRUE, big |-> FALSE],
      [name |-> "LP64", long |-> 8, ptr |-> 8, schar |-> TRUE, big |-> FALSE],
      [name |-> "LLP64", long |-> 4, ptr |-> 8, schar |-> FALSE, big |-> FALSE],
      [name |-> "LP64BE", long |-> 8, ptr |-> 8, schar |-> FALSE, big |-> TRUE] }

Qualifiers == {"const", "volatile"}

\* A type name without its qualifiers.
RECURSIVE Unqualified(_)
Unqualified(type) ==
    IF type = <<>> THEN <<>>
    ELSE IF Head(type) \in Qualifiers THEN Unqualified(Tail(type))
    ELSE <<Head(type)>> \o Unqualified(Tail(type))

T(size, signed, kind) == [size |-> size, signed |-> signed, kind |-> kind]

\* Size, signedness and kind of the type named by the tokens type, with the
\* typedef names in typedefs.
RECURSIVE TypeInfo(_, _, _)
TypeInfo(type, typedefs, h) ==
    LET t == Unqualified(type) IN
    CASE t # <<>> /\ t[Len(t)] = "*" -> T(h.ptr, FALSE, "ptr")
      [] t = <<"char">> -> T(1, h.schar, "int")
      [] t = <<"signed", "char">> -> T(1, TRUE, "int")
      [] t = <<"unsigned", "char">> -> T(1, FALSE, "int")
      [] t = <<"short">> -> T(2, TRUE, "int")
      [] t = <<"unsigned", "short">> -> T(2, FALSE, "int")
      [] t = <<"int">> -> T(4, TRUE, "int")
      [] t = <<"unsigned", "int">> -> T(4, FALSE, "int")
      [] t = <<"long">> -> T(h.long, TRUE, "int")
      [] t = <<"unsigned", "long">> -> T(h.long, FALSE, "int")
      [] t = <<"long", "long">> -> T(8, TRUE, "int")
      [] t = <<"unsigned", "long", "long">> -> T(8, FALSE, "int")
      [] t = <<"float">> -> T(4, TRUE, "float")
      [] t = <<"void">> -> T(0, FALSE, "void")
      [] Len(t) = 1 /\ Has(typedefs, t[1]) ->
            TypeInfo(typedefs[t[1]], typedefs, h)
      [] OTHER -> T(0, FALSE, "unknown")

Reverse(s) == [i \in 1..Len(s) |-> s[Len(s) + 1 - i]]

\* The object of type ti at address p: its bytes from the least significant
\* to the most significant, and the addresses read.
Load(mem, p, ti, h) ==
    [bytes |-> IF h.big THEN Reverse(Bytes(mem, p, ti.size))
               ELSE Bytes(mem, p, ti.size),
     signed |-> ti.signed,
     kind |-> ti.kind,
     touched |-> p..(p + ti.size - 1)]

\* Storage starts at address 1, which is aligned for every type.
Aligned(p, size) == size > 0 /\ (p - 1) % size = 0

\* An expression of the form  * (T *) e : the type T and the tokens of e.
IsDeref(toks) ==
    LET e == StripParens(toks) IN
    /\ Len(e) >= 5 /\ e[1] = "*" /\ e[2] = "("
    /\ CloseIdx(e, 3, 1) > 3
    /\ e[CloseIdx(e, 3, 1) - 1] = "*"

DerefOf(toks) ==
    LET e == StripParens(toks)
        close == CloseIdx(e, 3, 1)
    IN [type |-> SubSeq(e, 3, close - 2),
        arg |-> StripParens(SubSeq(e, close + 1, Len(e)))]

(***************************************************************************)
(* Use of the accessors: pgm_read_X(x1) is preprocessed and what comes out *)
(* is read as a dereference.                                               *)
(***************************************************************************)
BaseAccessors ==
    {"pgm_read_byte", "pgm_read_word", "pgm_read_dword", "pgm_read_float",
     "pgm_read_ptr"}

NearAccessors ==
    {"pgm_read_byte_near", "pgm_read_word_near", "pgm_read_dword_near",
     "pgm_read_float_near", "pgm_read_ptr_near"}

FarAccessors ==
    {"pgm_read_byte_far", "pgm_read_word_far", "pgm_read_dword_far",
     "pgm_read_float_far", "pgm_read_ptr_far"}

Accessors == BaseAccessors \cup NearAccessors \cup FarAccessors

\* What NAME(x1) dereferences: the pointee type, and whether the address is
\* the argument itself.
Access(name) ==
    LET toks == Preprocessed(Invocation(name, << <<ArgNames[1]>> >>))
    IN IF IsDeref(toks)
       THEN [type |-> DerefOf(toks).type,
             direct |-> DerefOf(toks).arg = <<ArgNames[1]>>]
       ELSE [type |-> <<>>, direct |-> FALSE]

AccessTable == [n \in Accessors |-> Access(n)]

\* The use NAME(p) on memory.
ShimRead(name, p, mem, h) ==
    Load(mem, p, TypeInfo(AccessTable[name].type, Included.typedefs, h), h)

ShimReadDefined(name, p, h) ==
    LET ti == TypeInfo(AccessTable[name].type, Included.typedefs, h)
    IN AccessTable[name].direct /\ InMem(p, ti.size) /\ Aligned(p, ti.size)

(***************************************************************************)
(* Declarations.  A declaration is its specifiers followed by declarators  *)
(* separated by commas; each declarator carries its own pointer part, so   *)
(* the type of a declared object is the specifiers plus that part.         *)
(***************************************************************************)
TypeWords ==
    {"const", "volatile", "char", "short", "int", "long", "unsigned",
     "signed", "float", "void"}

\* Number of leading tokens of toks that are type specifiers or qualifiers.
RECURSIVE SpecLen(_)
SpecLen(toks) ==
    IF toks = <<>> \/ Head(toks) \notin TypeWords THEN 0
    ELSE 1 + SpecLen(Tail(toks))

\* The pointer part a declarator starts with.
RECURSIVE PtrPart(_)
PtrPart(d) ==
    IF d = <<>> \/ Head(d) \notin ({"*"} \cup Qualifiers) THEN <<>>
    ELSE <<Head(d)>> \o PtrPart(Tail(d))

\* The objects a declaration declares, in order, each with its type.
Declared(toks) ==
    LET n == SpecLen(toks)
        ds == SplitArgs(SubSeq(toks, n + 1, Len(toks) - 1))
    IN [i \in 1..Len(ds) |->
           [name |-> ds[i][Len(PtrPart(ds[i])) + 1],
            type |-> SubSeq(toks, 1, n) \o PtrPart(ds[i])]]

\* The tokens toks without the token t.
RECURSIVE Without(_, _)
Without(toks, t) ==
    IF toks = <<>> THEN <<>>
    ELSE IF Head(toks) = t THEN Without(Tail(toks), t)
    ELSE <<Head(toks)>> \o Without(Tail(toks), t)

\* A primary expression: a name, with any parentheses around it.  env gives
\* the value of each name; other expressions have no value here.
NoValue == -1

ValueOf(toks, env) ==
    LET e == StripParens(toks) IN
    IF Len(e) = 1 /\ Has(env, e[1]) THEN env[e[1]] ELSE NoValue

(***************************************************************************)
(* Integer objects.  A value is kept as its bytes from the least           *)
(* significant to the most significant, with the signedness of its type.   *)
(***************************************************************************)
\* Conversion of the 8-byte pattern v to the integer type ti: the low bytes.
Conv(v, ti) == [bytes |-> SubSeq(v, 1, ti.size), signed |-> ti.signed]

\* The value plus one, modulo 2^(8 * size).
RECURSIVE IncBytes(_)
IncBytes(b) ==
    IF b = <<>> THEN <<>>
    ELSE IF Head(b) = 255 THEN <<0>> \o IncBytes(Tail(b))
    ELSE <<Head(b) + 1>> \o Tail(b)

Incr(val) == [val EXCEPT !.bytes = IncBytes(val.bytes)]

\* The largest value of a signed type: adding one to it is undefined.
IsSignedMax(val) ==
    /\ val.signed
    /\ \A i \in 1..Len(val.bytes) :
          val.bytes[i] = IF i = Len(val.bytes) THEN 127 ELSE 255

(***************************************************************************)
(* State.                                                                  *)
(*  Translation:                                                           *)
(*   c99  : the translation unit is compiled as C99 (else C11)             *)
(*   pp   : the preprocessor's state (see EmptyPP)                         *)
(*   pc   : the header line being read, 0 outside the header               *)
(*   incl : completed inclusions of the header                             *)
(*  Machine:                                                               *)
(*   host : the host data model                                            *)
(*   mem, pv, olds : memory, pointer objects, strtok's saved position      *)
(*  A program using the string macros:                                     *)
(*   ret    : what the last use returned                                   *)
(*   ncalls : uses made so far                                             *)
(*   rmem, rpv, rolds, rret : the same program with every NAME_P(...)      *)
(*            written as the ordinary function call, run alongside         *)
(*  A program using the accessors:                                         *)
(*   rd   : the last read (accessor, address, object read)                 *)
(*  A program running two tokenizations in turns:                          *)
(*   tk   : per tokenization the macro it uses, and the tokenization run   *)
(*          alone on its own copy of memory; the last token returned and   *)
(*          the one the tokenization alone returned                        *)
(*  Declarations and expressions of a program:                             *)
(*   obj  : an integer object declared with a prog_ type (x) and the       *)
(*          object declared with the <stdint.h> type of that width (y)     *)
(*   decl : the last declaration, as written, as preprocessed, and the     *)
(*          objects it declares                                            *)
(*   ps   : the last PSTR(literal): the literal's address and the value    *)
(*   use  : the last macro use, as written and as preprocessed             *)
(***************************************************************************)
VARIABLES c99, pp, pc, incl, host, mem, pv, olds,
          ret, ncalls, rmem, rpv, rolds, rret, rd, tk, obj, decl, ps, use

ppVars == <<c99, pp, pc, incl>>
machVars == <<host, mem, pv, olds>>
strVars == <<ret, ncalls, rmem, rpv, rolds, rret>>
declVars == <<obj, decl, ps>>
vars == <<ppVars, machVars, strVars, rd, tk, declVars, use>>

(***************************************************************************)
(* Inclusion.                                                              *)
(***************************************************************************)
\* Inclusions of the header one translation unit makes.
MaxIncludes == 3

\* Macros the including file may define itself before or between its
\* inclusions of the header; the second collides with line 6.
UserMacros ==
    { ObjMacro("DEBUG", <<"1">>),
      ObjMacro("PROGMEM", <<"__attribute__", "(", "(", "unused", ")", ")">>) }

\* #define in the including file.
UserDefine(m) ==
    /\ pc = 0
    /\ incl < MaxIncludes
    /\ IF Has(pp.macros, m.name) THEN pp.macros[m.name] # m ELSE TRUE
    /\ pp.diags < MaxIncludes
    /\ pp' = DoDefine(pp, m)
    /\ UNCHANGED <<c99, pc, incl, machVars, strVars, rd, tk, declVars, use>>

\* #include "pgmspace.h" in the including file.
BeginInclude ==
    /\ pc = 0
    /\ incl < MaxIncludes
    /\ pc' = 1
    /\ UNCHANGED <<c99, pp, incl, machVars, strVars, rd, tk, declVars, use>>

\* The line at pc takes effect; then the next line, or the end of the header.
ReadLine ==
    /\ pp' = DoLine(pp, Header[pc], c99)
    /\ IF pc = Len(Header)
       THEN pc' = 0 /\ incl' = incl + 1
       ELSE pc' = pc + 1 /\ incl' = incl
    /\ UNCHANGED <<c99, machVars, strVars, rd, tk, declVars, use>>

AtLine(kind) == pc > 0 /\ Header[pc].kind = kind

LineIfndef == AtLine("ifndef") /\ ReadLine

LineDefine == AtLine("define") /\ ~pp.skip /\ ReadLine

LineTypedef == AtLine("typedef") /\ ~pp.skip /\ ReadLine

LineIncludeSys == AtLine("include") /\ ~pp.skip /\ ReadLine

\* A blank line, or any line of a skipped group.
LinePassed ==
    /\ pc > 0
    /\ IF pp.skip THEN Header[pc].kind # "endif" ELSE Header[pc].kind = "blank"
    /\ ReadLine

LineEndif == AtLine("endif") /\ ReadLine

(***************************************************************************)
(* Use of the string macros.                                               *)
(***************************************************************************)
\* Uses of the macros one program makes.
MaxCalls == 2

\* Memory at the start: the string s1 at 1 ("a,b" or ",,b"), the delimiter
\* string "," at 5, the string s2 = "A,b" at 7 and a buffer from 11 on
\* holding "c".
Layout(c1) ==
    [a \in Addr |->
        CASE a = 1 -> c1
          [] a \in {2, 5, 8} -> 44
          [] a \in {3, 9} -> 98
          [] a = 7 -> 65
          [] a = 11 -> 99
          [] OTHER -> 0]

Layouts == {Layout(c1) : c1 \in {97, 44}}

SrcArgs == {1, 5, 7}
DstArgs == {11}
SizeArgs == {0, 2}
CharArgs == {44, 98}
PtrCells == {1, 2}

\* The values a program passes for a parameter of kind k.
ValsOf(k, first) ==
    CASE k \in {"p", "s"} -> SrcArgs \cup (IF first THEN {NULL} ELSE {})
      [] k = "d" -> DstArgs
      [] k = "n" -> SizeArgs
      [] k = "c" -> CharArgs
      [] k = "pp" -> PtrCells

\* The argument lists a program passes to fn; strtok and strtok_r also take
\* NULL as their first argument.
ArgLists(fn) ==
    LET sig == Signature(fn)
        V(k) == ValsOf(sig[k], k = 1 /\ fn \in {"strtok", "strtok_r"})
    IN CASE Len(sig) = 1 -> {<<a>> : a \in V(1)}
         [] Len(sig) = 2 -> {<<a, b>> : a \in V(1), b \in V(2)}
         [] Len(sig) = 3 -> {<<a, b, c>> : a \in V(1), b \in V(2), c \in V(3)}
         [] Len(sig) = 4 ->
               {<<a, b, c, d>> : a \in V(1), b \in V(2), c \in V(3), d \in V(4)}

\* The program uses the macro name with the values v; the program written
\* with ordinary calls calls Ordinary(name) with the same values.
UseStringMacro(name, v) ==
    /\ Has(pp.macros, name)
    /\ LET r == ShimCall(name, v, mem, pv, olds)
           q == LibCall(Ordinary(name), v, rmem, rpv, rolds)
       IN /\ mem' = r.mem /\ pv' = r.pv /\ olds' = r.olds /\ ret' = r.ret
          /\ rmem' = q.mem /\ rpv' = q.pv /\ rolds' = q.olds /\ rret' = q.ret
    /\ ncalls' = ncalls + 1
    /\ UNCHANGED <<ppVars, host, rd, tk, declVars, use>>

(***************************************************************************)
(* Use of the accessors.                                                   *)
(***************************************************************************)
UseAccessor(name, p) ==
    /\ Has(pp.macros, name)
    /\ rd' = [acc |-> name, addr |-> p, val |-> ShimRead(name, p, mem, host)]
    /\ UNCHANGED <<ppVars, machVars, strVars, tk, declVars, use>>

(***************************************************************************)
(* Two tokenizations run in turns by one program: tokenization q cuts the  *)
(* string at TokStr[q] at the delimiters of the string at TokDelim, with   *)
(* strtok_P or with strtok_rP and its own pointer object q.                *)
(***************************************************************************)
Toks == {1, 2}
TokStr == <<1, 7>>
TokDelim == 5

\* The arguments of the call: s is the string, or NULL to go on.
TokArgs(api, q, s) ==
    IF api = "strtok_P" THEN <<s, TokDelim>> ELSE <<s, TokDelim, q>>

TokStep(api, q, s) ==
    LET r == ShimCall(api, TokArgs(api, q, s), mem, pv, olds)
        a == Tok(tk.alone[q].mem, s, TokDelim, tk.alone[q].save)
    IN /\ mem' = r.mem /\ pv' = r.pv /\ olds' = r.olds
       /\ tk' = [api |-> [tk.api EXCEPT ![q] = api],
                 alone |-> [tk.alone EXCEPT ![q] = [mem |-> a.mem, save |-> a.save]],
                 last |-> q, ret |-> r.ret, aret |-> a.ret]
       /\ UNCHANGED <<ppVars, host, strVars, rd, declVars, use>>

\* Tokenization q starts: NAME(TokStr[q], delim ...).
TokFirst(api, q) ==
    /\ Has(pp.macros, api)
    /\ TokStep(api, q, TokStr[q])

\* Tokenization q goes on: NAME(NULL, delim ...).
TokNext(api, q) ==
    /\ tk.api[q] = api
    /\ TokStep(api, q, NULL)

(***************************************************************************)
(* Declarations and expressions.                                           *)
(***************************************************************************)
\* The prog_ integer types with the <stdint.h> type of the same width and
\* signedness.
IntTypes ==
    { <<"prog_int8_t", "int8_t">>, <<"prog_uint8_t", "uint8_t">>,
      <<"prog_int16_t", "int16_t">>, <<"prog_uint16_t", "uint16_t">>,
      <<"prog_int32_t", "int32_t">>, <<"prog_uint32_t", "uint32_t">>,
      <<"prog_int64_t", "int64_t">>, <<"prog_uint64_t", "uint64_t">> }

\* Values stored, as 8 bytes from the least significant.
Patterns ==
    { <<255, 255, 255, 255, 255, 255, 255, 255>>,
      <<254, 255, 255, 127, 0, 0, 0, 0>>,
      <<128, 0, 0, 0, 0, 0, 0, 0>>,
      <<255, 127, 0, 0, 0, 0, 0, 128>> }

\* Increments of one object.
MaxIncr == 2

\* prog_T x = v;  T y = v;
StoreInt(t, v) ==
    /\ Has(pp.typedefs, t[1])
    /\ obj' = [alias |-> t[1], std |-> t[2], n |-> 0,
               x |-> Conv(v, TypeInfo(<<t[1]>>, pp.typedefs, host)),
               y |-> Conv(v, TypeInfo(<<t[2]>>, pp.typedefs, host))]
    /\ UNCHANGED <<ppVars, machVars, strVars, rd, tk, decl, ps, use>>

\* x++;  y++;
IncrInt ==
    /\ obj.alias # ""
    /\ obj.n < MaxIncr
    /\ ~IsSignedMax(obj.y)
    /\ obj' = [obj EXCEPT !.x = Incr(obj.x), !.y = Incr(obj.y), !.n = obj.n + 1]
    /\ UNCHANGED <<ppVars, machVars, strVars, rd, tk, decl, ps, use>>

\* Declarations a program writes.
DeclForms ==
    { <<"PGM_P", "a", ";">>,
      <<"PGM_P", "a", ",", "b", ";">>,
      <<"PGM_P", "a", ",", "*", "b", ";">>,
      <<"PGM_P", "a", ",", "b", ",", "c", ";">>,
      <<"PGM_P", "p", "PROGMEM", "=", "lit1", ";">>,
      <<"const", "char", "msg", "[", "]", "PROGMEM", "=", "lit1", ";">>,
      <<"const", "unsigned", "char", "tab", "[", "]", "PROGMEM", "=", "lit2", ";">>,
      <<"const", "char", "msg", "[", "]", "=", "lit1", ";">> }

Declare(d) ==
    /\ decl' = [src |-> d,
                out |-> Expand(d, pp.macros, {}),
                objs |-> Declared(Expand(d, pp.macros, {}))]
    /\ UNCHANGED <<ppVars, machVars, strVars, rd, tk, obj, ps, use>>

\* String literals of the program and the addresses of their arrays.
Literals == [n \in {"lit1", "lit2"} |-> IF n = "lit1" THEN 1 ELSE 7]

\* PSTR(literal)
UsePSTR(lit) ==
    /\ Has(pp.macros, "PSTR")
    /\ ps' = [arg |-> Literals[lit],
              val |-> ValueOf(Expand(Invocation("PSTR", << <<lit>> >>),
                                     pp.macros, {}), Literals)]
    /\ UNCHANGED <<ppVars, machVars, strVars, rd, tk, obj, decl, use>>

\* Argument expressions a program writes in position k of a macro use.
ArgExprs(k) ==
    { <<ArgNames[k]>>, <<ArgNames[k], "++">>, <<ArgNames[k], "+", "1">> }

ArgExprLists(n) ==
    CASE n = 1 -> {<<a>> : a \in ArgExprs(1)}
      [] n = 2 -> {<<a, b>> : a \in ArgExprs(1), b \in ArgExprs(2)}
      [] n = 3 -> {<<a, b, c>> : a \in ArgExprs(1), b \in ArgExprs(2),
                                  c \in ArgExprs(3)}
      [] n = 4 -> {<<a, b, c, d>> : a \in ArgExprs(1), b \in ArgExprs(2),
                                     c \in ArgExprs(3), d \in ArgExprs(4)}

\* NAME(args) written in the program.
UseMacro(name, args) ==
    /\ use' = [name |-> name, args |-> args,
               out |-> Expand(Invocation(name, args), pp.macros, {})]
    /\ UNCHANGED <<ppVars, machVars, strVars, rd, tk, declVars>>

(***************************************************************************)
(* Specifications.                                                         *)
(***************************************************************************)
NoValueRead == [bytes |-> <<>>, signed |-> FALSE, kind |-> "", touched |-> {}]
NoInt == [bytes |-> <<>>, signed |-> FALSE]

\* Nothing has run yet.
NoProgram ==
    /\ ret = 0 /\ ncalls = 0
    /\ rmem = mem /\ rpv = pv /\ rolds = olds /\ rret = ret
    /\ rd = [acc |-> "", addr |-> 0, val |-> NoValueRead]
    /\ tk = [api |-> [q \in Toks |-> ""],
             alone |-> [q \in Toks |-> [mem |-> mem, save |-> NULL]],
             last |-> 0, ret |-> NULL, aret |-> NULL]
    /\ obj = [alias |-> "", std |-> "", n |-> 0, x |-> NoInt, y |-> NoInt]
    /\ decl = [src |-> <<>>, out |-> <<>>, objs |-> <<>>]
    /\ ps = [arg |-> NULL, val |-> NULL]
    /\ use = [name |-> "", args |-> <<>>, out |-> <<>>]

\* The translation unit has included the header once.
AfterInclude == c99 = FALSE /\ pp = Included /\ pc = 0 /\ incl = 1

StartMachine(hosts, mems) ==
    /\ host \in hosts
    /\ mem \in mems
    /\ pv = [c \in PtrCells |-> IF c = 1 THEN 7 ELSE NULL]
    /\ olds = NULL

ILP32 == CHOOSE h \in Hosts : h.name = "ILP32"

\* A translation unit that defines macros of its own and includes the
\* header up to MaxIncludes times.
InitInc ==
    /\ c99 \in BOOLEAN /\ pp = EmptyPP /\ pc = 0 /\ incl = 0
    /\ StartMachine({ILP32}, {Layout(97)})
    /\ NoProgram

NextInc ==
    \/ \E m \in UserMacros : UserDefine(m)
    \/ BeginInclude
    \/ LineIfndef
    \/ LineDefine
    \/ LineTypedef
    \/ LineIncludeSys
    \/ LinePassed
    \/ LineEndif

SpecInc == InitInc /\ [][NextInc]_vars

\* A program that uses the string macros up to MaxCalls times, with
\* arguments for which the ordinary call is defined.
InitStr == AfterInclude /\ StartMachine({ILP32}, Layouts) /\ NoProgram

NextStr ==
    /\ ncalls < MaxCalls
    /\ \E name \in StringMacros :
          \E v \in {w \in ArgLists(Ordinary(name)) :
                       LibDefined(Ordinary(name), w, rmem, rpv, rolds)} :
              UseStringMacro(name, v)

SpecStr == InitStr /\ [][NextStr]_vars

\* Memory a reading program starts with: two groups of four bytes, then
\* zeros.
Quads == { <<0, 0, 0, 0>>, <<1, 2, 3, 4>>, <<200, 0, 0, 128>> }

ReadMems ==
    { [a \in Addr |-> IF a <= 4 THEN q1[a] ELSE IF a <= 8 THEN q2[a - 4] ELSE 0] :
        q1 \in Quads, q2 \in Quads }

\* A program that reads memory through the accessors, on any host, at the
\* addresses where the read is defined.
InitRead == AfterInclude /\ StartMachine(Hosts, ReadMems) /\ NoProgram

NextRead ==
    \E name \in Accessors :
        \E p \in {a \in Addr : ShimReadDefined(name, a, host)} :
            UseAccessor(name, p)

SpecRead == InitRead /\ [][NextRead]_vars

\* A program that runs two tokenizations in turns.
InitTok == AfterInclude /\ StartMachine({ILP32}, Layouts) /\ NoProgram

NextTok ==
    \E api \in {"strtok_P", "strtok_rP"} : \E q \in Toks :
        \/ TokFirst(api, q)
        \/ TokNext(api, q)

SpecTok == InitTok /\ [][NextTok]_vars

\* A program's declarations and literals.
InitDecl == AfterInclude /\ StartMachine(Hosts, {Layout(97)}) /\ NoProgram

NextDecl ==
    \/ \E t \in IntTypes : \E v \in Patterns : StoreInt(t, v)
    \/ IncrInt
    \/ \E d \in DeclForms : Declare(d)
    \/ \E lit \in DOMAIN Literals : UsePSTR(lit)

SpecDecl == InitDecl /\ [][NextDecl]_vars

\* A program's uses of the function-like macros.
FnMacros == {n \in DOMAIN Included.macros : Included.macros[n].fnlike}

InitUse == AfterInclude /\ StartMachine({ILP32}, {Layout(97)}) /\ NoProgram

NextUse ==
    \E name \in FnMacros :
        \E args \in ArgExprLists(Len(pp.macros[name].params)) :
            UseMacro(name, args)

SpecUse == InitUse /\ [][NextUse]_vars

(***************************************************************************)
(* Properties.                                                             *)
(***************************************************************************)
\* The accessor a _near or _far name is a variant of.
BaseOf(name) ==
    CASE name \in {"pgm_read_byte_near", "pgm_read_byte_far"} -> "pgm_read_byte"
      [] name \in {"pgm_read_word_near", "pgm_read_word_far"} -> "pgm_read_word"
      [] name \in {"pgm_read_dword_near", "pgm_read_dword_far"} -> "pgm_read_dword"
      [] name \in {"pgm_read_float_near", "pgm_read_float_far"} -> "pgm_read_float"
      [] name \in {"pgm_read_ptr_near", "pgm_read_ptr_far"} -> "pgm_read_ptr"
      [] OTHER -> name

\* The positions of token t in toks.
Places(toks, t) == {i \in 1..Len(toks) : toks[i] = t}

\* The pointer part written on the i-th declarator of the declaration d.
OwnPtr(d, i) == PtrPart(SplitArgs(SubSeq(d, 2, Len(d) - 1))[i])

\* A declaration whose specifier is PGM_P.
UsesPGM_P(d) == d # <<>> /\ d[1] = "PGM_P"

\* C1: a program that uses the _P names and the same program written with
\* the ordinary function names stay in step: after every use the value
\* returned, the memory, the pointer objects and strtok's saved position are
\* the same in both, over any sequence of uses.
C1_SameAsOrdinary ==
    /\ ret = rret
    /\ mem = rmem
    /\ pv = rpv
    /\ olds = rolds

\* Two uses were made, one of them a copy into the buffer and one of them a
\* strtok_P that left a saved position.
C1_Witness ==
    /\ ncalls = 2
    /\ olds # NULL
    /\ mem[11] # 99

\* C2: a read through pgm_read_byte yields the unsigned 8-bit value stored
\* at the address passed, reads that address only, and leaves memory as it
\* was.
C2_ReadByteExact ==
    [][rd'.acc = "pgm_read_byte" =>
          /\ rd'.val.bytes = <<mem[rd'.addr]>>
          /\ ~rd'.val.signed
          /\ rd'.val.kind = "int"
          /\ rd'.val.touched = {rd'.addr}
          /\ mem' = mem]_vars

\* pgm_read_byte read the byte 128 at address 4 on a big-endian host.
C2_Witness ==
    /\ rd.acc = "pgm_read_byte"
    /\ rd.addr = 4
    /\ rd.val.bytes = <<128>>
    /\ host.big

\* C3: pgm_read_word reads exactly 2 bytes and pgm_read_dword exactly 4,
\* each yielding an unsigned value of that many bytes, on every host data
\* model.
C3_FixedWidth ==
    /\ rd.acc = "pgm_read_word" =>
          /\ rd.val.touched = rd.addr..(rd.addr + 1)
          /\ Len(rd.val.bytes) = 2
          /\ ~rd.val.signed
    /\ rd.acc = "pgm_read_dword" =>
          /\ rd.val.touched = rd.addr..(rd.addr + 3)
          /\ Len(rd.val.bytes) = 4
          /\ ~rd.val.signed

\* C4: a read through a _near or _far accessor yields what the accessor of
\* the same width yields at the same address.
C4_NearFarSameAsBase ==
    rd.acc \in NearAccessors \cup FarAccessors =>
        rd.val = ShimRead(BaseOf(rd.acc), rd.addr, mem, host)

\* pgm_read_dword_far read a nonzero object on a host with 8-byte long.
C4_Witness ==
    /\ rd.acc = "pgm_read_dword_far"
    /\ host.long = 8
    /\ rd.val.bytes[1] # 0

\* C5 as stated: every call of a tokenization returns what that tokenization
\* returns when it runs alone, whichever macro it uses.
C5_NoInterference ==
    tk.last # 0 => tk.ret = tk.aret

\* C5: the shim keeps no state of its own, and a tokenization through
\* strtok_rP with a pointer object of its own returns at every call what it
\* returns when it runs alone, whatever the other tokenization does.
C5_ReentrantNoInterference ==
    (tk.last # 0 /\ tk.api[tk.last] = "strtok_rP") => tk.ret = tk.aret

\* Both tokenizations run through strtok_rP; the second is past its first
\* token when the first returns its second token.
C5_Witness ==
    /\ tk.api[1] = "strtok_rP" /\ tk.api[2] = "strtok_rP"
    /\ tk.last = 1
    /\ tk.ret = 3
    /\ pv[2] = 9

\* C6: an object of a prog_ integer type and an object of the <stdint.h>
\* type of the same N hold the same bytes with the same signedness after the
\* same stores and increments (so the same width, range and wrap-around).
C6_SameAsStdint ==
    obj.alias # "" =>
        /\ obj.x = obj.y
        /\ obj.x.bytes # <<>>

\* A prog_uint16_t object wrapped around from 65535 to 0.
C6_Witness ==
    /\ obj.alias = "prog_uint16_t"
    /\ obj.n = 1
    /\ obj.x.bytes = <<0, 0>>

\* C7: once the header has been included, no line of a further inclusion
\* defines a macro or a typedef, raises a diagnostic or changes the
\* definitions.
C7_IncludeIdempotent ==
    [][(incl >= 1 /\ pc > 0) =>
          /\ pp'.macros = pp.macros
          /\ pp'.typedefs = pp.typedefs
          /\ pp'.diags = pp.diags
          /\ pp'.ndef = pp.ndef]_vars

\* The second further inclusion is at line 30, inside the skipped group.
C7_Witness ==
    /\ incl = 2
    /\ pc = 30
    /\ pp.skip

\* C8 as stated: every object declared with PGM_P has the type const char *
\* followed by the pointer part of its own declarator.
C8_TypeAlias ==
    UsesPGM_P(decl.src) =>
        \A i \in 1..Len(decl.objs) :
            decl.objs[i].type = <<"const", "char", "*">> \o OwnPtr(decl.src, i)

\* C8: PGM_P stands for the tokens const char *, so in a declaration the
\* first declarator has the type const char * followed by its own pointer
\* part, and every later declarator const char followed by its own pointer
\* part.
C8_TokenReplacement ==
    UsesPGM_P(decl.src) =>
        /\ Len(decl.objs) >= 1
        /\ \A i \in 1..Len(decl.objs) :
              decl.objs[i].type =
                  (IF i = 1 THEN <<"const", "char", "*">> ELSE <<"const", "char">>)
                      \o OwnPtr(decl.src, i)

\* PGM_P a, b; was declared: b is a const char.
C8_Witness ==
    /\ decl.src = <<"PGM_P", "a", ",", "b", ";">>
    /\ Len(decl.objs) = 2
    /\ decl.objs[2] = [name |-> "b", type |-> <<"const", "char">>]

\* C9: PSTR(s) has the value of s, the memory holding the literal is as it
\* was, and a declaration carrying PROGMEM is preprocessed to the same
\* tokens, and declares the same objects, as the declaration without it.
C9_MarkersTransparent ==
    /\ ps.arg # NULL => (ps.val = ps.arg /\ mem = Layout(97))
    /\ decl.src # <<>> =>
          /\ decl.out = Expand(Without(decl.src, "PROGMEM"), pp.macros, {})
          /\ decl.objs = Declared(Expand(Without(decl.src, "PROGMEM"),
                                         pp.macros, {}))

\* PSTR was used on the literal at 7 and a declaration with PROGMEM was
\* made.
C9_Witness ==
    /\ ps.arg = 7
    /\ decl.src = <<"PGM_P", "p", "PROGMEM", "=", "lit1", ";">>

\* C10: in what a use of a function-like macro is preprocessed to, each
\* argument occurs exactly once, directly inside parentheses of its own, in
\* the order written; for a _P macro it is a call taking exactly the
\* arguments written, in that order.
C10_ArgumentsOnce ==
    use.name # "" =>
        /\ \A k \in 1..Len(use.args) :
              /\ Cardinality(Places(use.out, ArgNames[k])) = 1
              /\ \A i \in Places(use.out, ArgNames[k]) :
                    /\ i > 1
                    /\ i + Len(use.args[k]) <= Len(use.out)
                    /\ SubSeq(use.out, i - 1, i + Len(use.args[k]))
                           = <<"(">> \o use.args[k] \o <<")">>
        /\ \A k \in 1..Len(use.args), j \in 1..Len(use.args) :
              k < j => \A a \in Places(use.out, ArgNames[k]),
                          b \in Places(use.out, ArgNames[j]) : a < b
        /\ use.name \in StringMacros =>
              /\ IsCall(use.out)
              /\ CallOf(use.out).args = use.args

\* memcpy_P(x1++, x2, x3 + 1) was written.
C10_Witness ==
    /\ use.name = "memcpy_P"
    /\ use.args = << <<"x1", "++">>, <<"x2">>, <<"x3", "+", "1">> >>
    /\ use.out[1] = "memcpy"
=============================================================================
